---- MODULE Spec2Model ----
(***************************************************************************)
(* Model of coap-cli: the command line client of src/main.rs and the       *)
(* helper functions of src/coap_helper.rs.                                 *)
(*                                                                         *)
(* Strings whose characters the code inspects (content-format tokens, URL  *)
(* hosts, URL paths) are sequences of one-character strings.  Option<T> is *)
(* a sequence of length 0 (None) or 1 (Some).                              *)
(***************************************************************************)
EXTENDS Integers, Sequences, FiniteSets, TLC

VARIABLES args, pc, data, host, port, request, idx, net, response,
          stdout, stderr, err, exit_status, call, result

vars == <<args, pc, data, host, port, request, idx, net, response,
          stdout, stderr, err, exit_status, call, result>>

cli_vars == <<args, pc, data, host, port, request, idx, net, response,
              stdout, stderr, err, exit_status>>

helper_vars == <<call, result>>

----------------------------------------------------------------------------
(* Bounds of the model *)

MaxAccept == 2

MaxTokenLen == 3

MaxHostLen == 5

----------------------------------------------------------------------------
(* Generic helpers *)

None == <<>>

Some(x) == <<x>>

IsSome(o) == Len(o) = 1

Unwrap(o) == o[1]

SeqsUpTo(S, n) == UNION {[1..k -> S] : k \in 0..n}

Last(s) == s[Len(s)]

Front(s) == SubSeq(s, 1, Len(s) - 1)

Ok(v) == [ok |-> TRUE, val |-> v]

Err(kind, arg) == [ok |-> FALSE, kind |-> kind, arg |-> arg]

----------------------------------------------------------------------------
(* str::parse::<usize>() on a 64-bit target: an optional '+', then one or  *)
(* more ASCII digits, failing on overflow of usize.  The parsed number is  *)
(* kept as its digit string without leading zeros.                         *)

Digits == {"0", "1", "2", "3", "4", "5", "6", "7", "8", "9"}

DigitVal ==
    "0" :> 0 @@ "1" :> 1 @@ "2" :> 2 @@ "3" :> 3 @@ "4" :> 4 @@
    "5" :> 5 @@ "6" :> 6 @@ "7" :> 7 @@ "8" :> 8 @@ "9" :> 9

UsizeMax ==
    <<"1","8","4","4","6","7","4","4","0","7","3","7","0","9","5","5","1","6","1","5">>

RECURSIVE StripZeros(_)
StripZeros(s) ==
    IF Len(s) > 1 /\ Head(s) = "0" THEN StripZeros(Tail(s)) ELSE s

RECURSIVE DigitsGreater(_, _)
DigitsGreater(a, b) ==
    IF a = <<>> THEN FALSE
    ELSE IF DigitVal[Head(a)] # DigitVal[Head(b)]
         THEN DigitVal[Head(a)] > DigitVal[Head(b)]
         ELSE DigitsGreater(Tail(a), Tail(b))

UsizeOverflow(n) ==
    \/ Len(n) > Len(UsizeMax)
    \/ Len(n) = Len(UsizeMax) /\ DigitsGreater(n, UsizeMax)

\* the digits after the optional sign
parse_digits(body, s) ==
    IF body = <<>> THEN Err("parse", s)
    ELSE IF \E i \in 1..Len(body) : body[i] \notin Digits THEN Err("parse", s)
    ELSE IF UsizeOverflow(StripZeros(body)) THEN Err("parse", s)
    ELSE Ok(StripZeros(body))

parse_usize(s) ==
    parse_digits(IF s # <<>> /\ Head(s) = "+" THEN Tail(s) ELSE s, s)

RECURSIVE DigitsValue(_)
DigitsValue(n) ==
    IF n = <<>> THEN 0 ELSE 10 * DigitsValue(Front(n)) + DigitVal[Last(n)]

----------------------------------------------------------------------------
(* coap_lite::ContentFormat: the enum is identified by its registry code.  *)

RegisteredCodes ==
    {0, 16, 17, 18, 19, 21, 22, 23, 40, 41, 42, 47, 50, 51, 52, 60, 61, 62,
     63, 96, 97, 98, 101, 102, 110, 111, 112, 113, 114, 115, 256, 271, 272,
     280, 281, 284, 285, 286, 287, 310, 311, 320, 322, 432, 10000, 10001,
     10002, 11050, 11060, 11542, 11543, 11544, 20000, 30000}

\* ContentFormat::try_from(usize); every registered code has at most 5 digits
ContentFormat_try_from(n) ==
    IF Len(n) <= 5 /\ DigitsValue(n) \in RegisteredCodes
    THEN Ok(DigitsValue(n))
    ELSE Err("try_from", n)

TextPlain == 0

ApplicationXML == 41

ApplicationOctetStream == 42

ApplicationJSON == 50

ApplicationCBOR == 60

S_text_plain == <<"t","e","x","t","/","p","l","a","i","n">>

S_application_json ==
    <<"a","p","p","l","i","c","a","t","i","o","n","/","j","s","o","n">>

S_application_xml ==
    <<"a","p","p","l","i","c","a","t","i","o","n","/","x","m","l">>

S_application_cbor ==
    <<"a","p","p","l","i","c","a","t","i","o","n","/","c","b","o","r">>

S_application_octet_stream ==
    <<"a","p","p","l","i","c","a","t","i","o","n","/",
      "o","c","t","e","t","-","s","t","r","e","a","m">>

\* ContentFormat::try_from(num).map_err(..)
map_format_err(cf, s) ==
    IF cf.ok THEN cf ELSE Err("invalid content format number", s)

\* match s { "text/plain" => .., .. }
match_format_string(s) ==
    IF s = S_text_plain THEN Ok(TextPlain)
    ELSE IF s = S_application_json THEN Ok(ApplicationJSON)
    ELSE IF s = S_application_xml THEN Ok(ApplicationXML)
    ELSE IF s = S_application_cbor THEN Ok(ApplicationCBOR)
    ELSE IF s = S_application_octet_stream THEN Ok(ApplicationOctetStream)
    ELSE Err("unsupported content format string", s)

\* a numeric token the registry rejects falls through to the string match
format_of_parsed_fallthrough(num, s) ==
    IF num.ok /\ ContentFormat_try_from(num.val).ok
    THEN ContentFormat_try_from(num.val)
    ELSE match_format_string(s)

\* the two branches of: if let Ok(num) = s.parse::<usize>()
format_of_parsed(num, s) ==
    IF num.ok
    THEN map_format_err(ContentFormat_try_from(num.val), s)
    ELSE match_format_string(s)

parse_content_format(s) == format_of_parsed(parse_usize(s), s)

\* usize::from(cf) followed by try_into::<u16>().unwrap()
content_format_as_u16(cf) == cf

\* OptionValueU16 as option bytes: big-endian without leading zero bytes
OptionValueU16(v) ==
    IF v = 0 THEN <<>>
    ELSE IF v < 256 THEN <<v>>
    ELSE <<v \div 256, v % 256>>

----------------------------------------------------------------------------
(* url::Url.  A URL string is given by its components as the parser        *)
(* delimits them: scheme ("" when the string has no scheme), whether "//"  *)
(* follows the scheme, the host text (up to the first ':' outside square   *)
(* brackets, '/', '?' or end), the port digits, the path and the query.    *)

SpecialSchemes == {"http"}

\* url::parser::default_port
default_port(scheme) == IF scheme = "http" THEN Some(80) ELSE None

HexDigits == {"a"}

RECURSIVE Split(_, _)
Split(s, sep) ==
    IF \A i \in 1..Len(s) : s[i] # sep THEN <<s>>
    ELSE LET k == CHOOSE i \in 1..Len(s) :
                      s[i] = sep /\ \A j \in 1..(i - 1) : s[j] # sep
         IN  <<SubSeq(s, 1, k - 1)>> \o Split(SubSeq(s, k + 1, Len(s)), sep)

\* url::host::parse_ipv6addr, for addresses without zero digits, upper case
\* letters or an embedded IPv4 address
\* the pieces g between the colons: eight pieces, or fewer with one "::"
Ipv6Pieces(g, n, empty) ==
    /\ \A i \in 1..n : Len(g[i]) <= 4
    /\ \/ n = 8 /\ empty = {}
       \/ /\ n - Cardinality(empty) <= 7
          /\ \/ n >= 3 /\ \E i \in 2..(n - 1) : empty = {i}
             \/ n >= 3 /\ empty = {1, 2}
             \/ n >= 3 /\ empty = {n - 1, n}
             \/ n = 3 /\ empty = {1, 2, 3}

IsIpv6(s) ==
    /\ \A i \in 1..Len(s) : s[i] \in HexDigits \cup {":"}
    /\ \E g \in {Split(s, ":")} :
          Ipv6Pieces(g, Len(g), {i \in 1..Len(g) : g[i] = <<>>})

ForbiddenHostChars == {"[", "]", ":"}

\* url::Host::parse / parse_opaque: the text of host_str(), None for the
\* empty host of a non-special scheme.  An IPv6 address is serialized back
\* between brackets (unchanged for the addresses IsIpv6 covers).
Host_parse(scheme, h) ==
    IF h = <<>>
    THEN IF scheme \in SpecialSchemes THEN Err("EmptyHost", h) ELSE Ok(None)
    ELSE IF Head(h) = "["
    THEN IF Last(h) = "]" /\ Len(h) >= 2 /\ IsIpv6(SubSeq(h, 2, Len(h) - 1))
         THEN Ok(Some(<<"[">> \o SubSeq(h, 2, Len(h) - 1) \o <<"]">>))
         ELSE Err("InvalidIpv6Address", h)
    ELSE IF \E i \in 1..Len(h) : h[i] \in ForbiddenHostChars
         THEN Err("InvalidDomainCharacter", h)
         ELSE Ok(Some(h))

\* url::parser::parse_port: a port equal to the scheme's default is dropped
Port_parse(scheme, p) ==
    IF p = None THEN Ok(None)
    ELSE IF Unwrap(p) > 65535 THEN Err("InvalidPort", p)
    ELSE IF p = default_port(scheme) THEN Ok(None)
    ELSE Ok(p)

\* Url::parse, with the accessors host_str(), port(), path(), query()
\* the URL of a parsed authority: host h, port p
Url_of(u, h, p) ==
    IF ~h.ok THEN h
    ELSE IF ~p.ok THEN p
    ELSE Ok([host_str |-> h.val,
             port |-> p.val,
             path |-> IF u.scheme \in SpecialSchemes /\ u.path = <<>>
                      THEN <<"/">> ELSE u.path,
             query |-> u.query])

Url_parse(u) ==
    IF u.scheme = "" THEN Err("RelativeUrlWithoutBase", u)
    ELSE IF ~u.authority
    THEN Ok([host_str |-> None, port |-> None, path |-> u.path, query |-> u.query])
    ELSE Url_of(u, Host_parse(u.scheme, u.host), Port_parse(u.scheme, u.port))

\* the host is used as host_str() returns it
StripBrackets_keep(h) == h

\* Regex::new(r"^\[(.*?)]$").replace(host, "$1")
StripBrackets(h) ==
    IF Len(h) >= 2 /\ Head(h) = "[" /\ Last(h) = "]"
    THEN SubSeq(h, 2, Len(h) - 1)
    ELSE h

\* parse_coap_url once Url::parse has returned url_params
resolve_url_params(url_params) ==
    IF ~url_params.ok THEN Err("url error", <<>>)
    ELSE IF url_params.val.host_str = Some(<<>>) THEN Err("host error", <<>>)
    ELSE IF url_params.val.host_str = None THEN Err("host error", <<>>)
    ELSE Ok([host |-> StripBrackets(Unwrap(url_params.val.host_str)),
             port |-> url_params.val.port,
             path |-> url_params.val.path,
             query |-> url_params.val.query])

parse_coap_url(u) == resolve_url_params(Url_parse(u))

----------------------------------------------------------------------------
(* coap_lite::CoapRequest: method, options (per option number the list of  *)
(* its values, in the order added) and payload.                            *)

OptionNames == {"UriHost", "UriPath", "UriQuery", "ContentFormat", "Accept"}

CoapRequest_new ==
    [method |-> "Empty", options |-> [o \in OptionNames |-> <<>>], payload |-> <<>>]

\* Packet::set_option: replaces the values of the option
set_option(req, o, values) == [req EXCEPT !.options[o] = values]

\* Packet::add_option: appends one value to the option
add_option(req, o, value) == [req EXCEPT !.options[o] = Append(@, value)]

set_method(req, m) == [req EXCEPT !.method = m]

\* CoapRequest::set_path: one Uri-Path value per '/'-separated segment,
\* skipping the empty segment before a leading '/'
path_segments(segs) == IF Head(segs) = <<>> THEN Tail(segs) ELSE segs

set_path(req, path) == set_option(req, "UriPath", path_segments(Split(path, "/")))

set_domain(req, domain) == set_option(req, "UriHost", <<domain>>)

set_query(req, query) == set_option(req, "UriQuery", <<query>>)

\* set_option in place of add_option: each Accept replaces the previous one
add_accept_replacing(req, accept) ==
    set_option(req, "Accept", <<OptionValueU16(content_format_as_u16(accept))>>)

add_accept(req, accept) ==
    add_option(req, "Accept", OptionValueU16(content_format_as_u16(accept)))

set_content_format(req, content_format) ==
    set_option(req, "ContentFormat",
               <<OptionValueU16(content_format_as_u16(content_format))>>)

set_data(req, bytes) == [req EXCEPT !.payload = bytes]

\* if let Some(query) = query { request.set_query(&query) }
set_query_if_some(req, query) ==
    IF IsSome(query) THEN set_query(req, Unwrap(query)) ELSE req

\* coap_request_for_url once parse_coap_url has returned r
request_for_parts(r) ==
    IF ~r.ok THEN r
    ELSE Ok([host |-> r.val.host,
             port |-> r.val.port,
             request |-> set_query_if_some(
                             set_path(set_domain(CoapRequest_new, r.val.host), r.val.path),
                             r.val.query)])

coap_request_for_url(u) == request_for_parts(parse_coap_url(u))

\* RequestBuilder::build: add_option for each (option, value) pair, in order
AddOptions(req, pairs) ==
    LET f[i \in 0..Len(pairs)] ==
            IF i = 0 THEN req ELSE add_option(f[i - 1], pairs[i][1], pairs[i][2])
    IN  f[Len(pairs)]

\* the (option, value) pairs of the builder: queries, domain, then options
builder_options(r, content_format, accept) ==
    (IF IsSome(r.val.query) THEN << <<"UriQuery", Unwrap(r.val.query)>> >> ELSE <<>>)
    \o (IF r.val.host # <<>> THEN << <<"UriHost", r.val.host>> >> ELSE <<>>)
    \o (IF IsSome(content_format)
        THEN << <<"ContentFormat",
                  OptionValueU16(content_format_as_u16(Unwrap(content_format)))>> >>
        ELSE <<>>)
    \o (IF IsSome(accept)
        THEN [i \in 1..Len(Unwrap(accept)) |->
                <<"Accept", OptionValueU16(content_format_as_u16(Unwrap(accept)[i]))>>]
        ELSE <<>>)

\* rb.data(payload)
set_data_if_some(req, payload) ==
    IF IsSome(payload) THEN set_data(req, Unwrap(payload)) ELSE req

\* RequestBuilder::new(path, method).domain(host).queries(..).data(payload)
\* .options(..).build(), once parse_coap_url has returned r
build_for_parts(r, method, payload, content_format, accept) ==
    IF ~r.ok THEN r
    ELSE Ok(set_data_if_some(
                AddOptions(set_path(set_method(CoapRequest_new, method), r.val.path),
                           builder_options(r, content_format, accept)),
                payload))

build_coap_request_for_url(u, method, payload, content_format, accept) ==
    build_for_parts(parse_coap_url(u), method, payload, content_format, accept)

----------------------------------------------------------------------------
(* Inputs of the helper functions *)

TokenAlphabet == {"0", "4", "5", "6", "+", "-", "a"}

S_Text_Plain == <<"T","e","x","t","/","p","l","a","i","n">>

S_application_JSON ==
    <<"a","p","p","l","i","c","a","t","i","o","n","/","J","S","O","N">>

S_text_unknown == <<"t","e","x","t","/","u","n","k","n","o","w","n">>

S_999999 == <<"9","9","9","9","9","9">>

\* usize::MAX + 1
S_overflow ==
    <<"1","8","4","4","6","7","4","4","0","7","3","7","0","9","5","5","1","6","1","6">>

ExtraTokens ==
    {S_text_plain, S_application_json, S_application_xml, S_application_cbor,
     S_application_octet_stream, S_Text_Plain, S_application_JSON,
     S_text_unknown, S_999999, <<"4","1">>, <<"4","2">>, <<"+","4","2">>,
     <<"1","0","0","0","0">>, UsizeMax, S_overflow}

Tokens == SeqsUpTo(TokenAlphabet, MaxTokenLen) \cup ExtraTokens

HostAlphabet == {"a", "[", "]", ":"}

RECURSIVE ColonOutsideBrackets(_, _)
ColonOutsideBrackets(h, inside) ==
    IF h = <<>> THEN FALSE
    ELSE IF Head(h) = "[" THEN ColonOutsideBrackets(Tail(h), TRUE)
    ELSE IF Head(h) = "]" THEN ColonOutsideBrackets(Tail(h), FALSE)
    ELSE IF Head(h) = ":" /\ ~inside THEN TRUE
    ELSE ColonOutsideBrackets(Tail(h), inside)

\* the host text ends at the first ':' outside square brackets
HostTexts == {h \in SeqsUpTo(HostAlphabet, MaxHostLen) : ~ColonOutsideBrackets(h, FALSE)}

Schemes == {"coap", "http"}

PortTexts == {None, Some(5683), Some(80), Some(70000)}

Paths == {<<>>, <<"/","a","/","b">>}

Queries == {None, Some("x=1&y=2")}

MkUrl(s, au, h, p, pa, q) ==
    [scheme |-> s, authority |-> au, host |-> h, port |-> p, path |-> pa, query |-> q]

\* scheme://host[:port]path[?query]; an empty host is written only for a
\* non-special scheme and without a port ("coap:///a/b")
AuthorityUrls ==
    {u \in {MkUrl(s, TRUE, h, p, pa, q) :
               s \in Schemes, h \in HostTexts, p \in PortTexts, pa \in Paths, q \in Queries} :
        u.host = <<>> => (u.scheme \notin SpecialSchemes /\ u.port = None)}

\* scheme:path[?query] ("coap:/a/b")
NoAuthorityUrls ==
    {MkUrl("coap", FALSE, <<>>, None, pa, q) : pa \in Paths \ {<<>>}, q \in Queries}

\* no scheme at all ("a/b")
NoSchemeUrls == {MkUrl("", FALSE, <<>>, None, <<"a","/","b">>, None)}

Urls == AuthorityUrls \cup NoAuthorityUrls \cup NoSchemeUrls

Methods == {"Get", "Post", "Put", "Delete"}

Payloads == {None, Some(<<111, 110>>)}

HelperFormats == {TextPlain, ApplicationJSON, ApplicationCBOR, 10000}

Url_localhost == MkUrl("coap", TRUE, <<"a">>, Some(5683), <<"/","a","/","b">>, Some("x=1&y=2"))

Url_ipv6 == MkUrl("coap", TRUE, <<"[",":",":","]">>, Some(80), <<"/","a","/","b">>, None)

BuildInputs ==
    {[url |-> u, method |-> m, payload |-> pl, content_format |-> cf, accept |-> ac] :
        u \in {Url_localhost, Url_ipv6}, m \in {"Get", "Put"}, pl \in Payloads,
        cf \in {None, Some(TextPlain)},
        ac \in {None} \cup {Some(l) : l \in SeqsUpTo(HelperFormats, MaxAccept)}}

----------------------------------------------------------------------------
(* The public functions of coap_helper.rs, each applied to one input *)

CliIdle ==
    /\ args = <<>> /\ pc = "idle" /\ data = None /\ host = <<>> /\ port = None
    /\ request = CoapRequest_new /\ idx = 0 /\ net = <<>> /\ response = None
    /\ stdout = <<>> /\ stderr = <<>> /\ err = None /\ exit_status = None

InitHelper ==
    /\ CliIdle
    /\ result = None
    /\ \/ call \in {[fn |-> "parse_content_format", arg |-> t] : t \in Tokens}
       \/ call \in {[fn |-> "parse_coap_url", arg |-> u] : u \in Urls}
       \/ call \in {[fn |-> "build_coap_request_for_url", arg |-> b] : b \in BuildInputs}

Call_parse_content_format ==
    /\ call.fn = "parse_content_format" /\ result = None
    /\ result' = Some(parse_content_format(call.arg))
    /\ UNCHANGED <<call, cli_vars>>

Call_parse_coap_url ==
    /\ call.fn = "parse_coap_url" /\ result = None
    /\ result' = Some(parse_coap_url(call.arg))
    /\ UNCHANGED <<call, cli_vars>>

Call_build_coap_request_for_url ==
    /\ call.fn = "build_coap_request_for_url" /\ result = None
    /\ result' = Some(build_coap_request_for_url(call.arg.url, call.arg.method,
                          call.arg.payload, call.arg.content_format, call.arg.accept))
    /\ UNCHANGED <<call, cli_vars>>

NextHelper ==
    \/ Call_parse_content_format
    \/ Call_parse_coap_url
    \/ Call_build_coap_request_for_url

SpecHelper == InitHelper /\ [][NextHelper]_vars

----------------------------------------------------------------------------
(* The command line client: one invocation of main() *)

DEFAULT_RECEIVE_TIMEOUT == 1

DefaultPort == 5683

\* a path of the file system with what the file system holds there:
\* content is the text of a regular file, None when it is not valid UTF-8
F_data == [name |-> "data.txt", utf8_name |-> TRUE, is_file |-> TRUE,
           content |-> Some(<<111, 102, 102>>)]

F_blob == [name |-> "blob.bin", utf8_name |-> TRUE, is_file |-> TRUE, content |-> None]

F_dir == [name |-> "dir", utf8_name |-> TRUE, is_file |-> FALSE, content |-> None]

F_raw == [name |-> "dir-ff", utf8_name |-> FALSE, is_file |-> FALSE, content |-> None]

CliFiles == {None, Some(F_data), Some(F_blob), Some(F_dir), Some(F_raw)}

CliData == {None, Some(<<111, 110>>)}

S_10000 == <<"1","0","0","0","0">>

AcceptTokens == {S_application_json, S_application_cbor, S_10000, S_text_unknown}

CliAccepts == SeqsUpTo(AcceptTokens, MaxAccept)

CliContentFormats == {None, Some(S_text_plain), Some(S_999999)}

CliTimeouts == {0, DEFAULT_RECEIVE_TIMEOUT}

Url_noport == MkUrl("coap", TRUE, <<"a">>, None, <<"/","a","/","b">>, None)

Url_http80 == MkUrl("http", TRUE, <<"a">>, Some(80), <<"/","a","/","b">>, None)

Url_nohost == MkUrl("coap", TRUE, <<>>, None, <<"/","a","/","b">>, None)

CliUrls == {Url_localhost, Url_noport, Url_ipv6, Url_http80, Url_nohost} \cup NoSchemeUrls

Responses ==
    {[code |-> c, payload |-> pl] :
        c \in {"2.05 Content", "4.04 Not Found"}, pl \in {<<111, 107>>, <<111, 255>>}}

\* String::from_utf8_lossy for payloads of ASCII bytes and bytes that occur
\* in no UTF-8 sequence (0xF8..0xFF): each of the latter becomes U+FFFD
from_utf8_lossy(bytes) ==
    [i \in 1..Len(bytes) |-> IF bytes[i] < 128 THEN bytes[i] ELSE 65533]

HasBody(command) == command \in {"Post", "Put"}

Banner(command) ==
    CASE command = "Get" -> "GET"
      [] command = "Post" -> "POST"
      [] command = "Put" -> "PUT"
      [] command = "Delete" -> "DELETE"

Init ==
    /\ call = <<>> /\ result = None
    /\ \/ args \in [url : CliUrls, timeout : CliTimeouts, command : {"Get", "Delete"},
                    accept : CliAccepts, content_format : {None}, data : {None},
                    file : {None}]
       \/ args \in [url : CliUrls, timeout : CliTimeouts, command : {"Post", "Put"},
                    accept : CliAccepts, content_format : CliContentFormats,
                    data : CliData, file : CliFiles]
    /\ pc = "main" /\ data = None /\ host = <<>> /\ port = None
    /\ request = CoapRequest_new /\ idx = 0 /\ net = <<>> /\ response = None
    /\ stdout = <<>> /\ stderr = <<>> /\ err = None /\ exit_status = None

\* the Err(..)? of a function called from execute_command
Fail(e) ==
    /\ err' = Some(e)
    /\ pc' = "failed"

load_data_file(file) ==
    IF ~file.is_file
    THEN IF file.utf8_name
         THEN Err("Error: path must be file", file.name)
         ELSE Err("panic", "unwrap on None")
    ELSE IF file.content = None
         THEN Err("stream did not contain valid UTF-8", file.name)
         ELSE Ok(Unwrap(file.content))

\* Some(load_data_file(file)?)
file_source(f) == IF f.ok THEN Ok(Some(f.val)) ELSE f

\* a missing payload source becomes an empty payload
payload_source_default(a) ==
    IF IsSome(a.data) THEN Ok(a.data)
    ELSE IF IsSome(a.file) THEN file_source(load_data_file(Unwrap(a.file)))
    ELSE Ok(Some(<<>>))

\* the payload source of Post and Put
payload_source(a) ==
    IF IsSome(a.data) THEN Ok(a.data)
    ELSE IF IsSome(a.file) THEN file_source(load_data_file(Unwrap(a.file)))
    ELSE Ok(None)

\* the Post and Put arms of execute_command, src being the payload source:
\* a panic ends the process with status 101
execute_with_source(src) ==
    IF ~src.ok /\ src.kind = "panic"
    THEN /\ stderr' = Append(stderr, <<"panicked", src.arg>>)
         /\ exit_status' = Some(101)
         /\ pc' = "exited"
         /\ UNCHANGED <<data, err>>
    ELSE IF ~src.ok
    THEN Fail(src) /\ UNCHANGED <<data, stderr, exit_status>>
    ELSE IF src.val = None
    THEN /\ Fail(Err("must specify either data string or file path", <<>>))
         /\ UNCHANGED <<data, stderr, exit_status>>
    ELSE /\ data' = src.val
         /\ pc' = "coap"
         /\ UNCHANGED <<err, stderr, exit_status>>

execute_command ==
    /\ pc = "main"
    /\ IF ~HasBody(args.command)
       THEN /\ pc' = "coap"
            /\ UNCHANGED <<data, err, stderr, exit_status>>
       ELSE execute_with_source(payload_source(args))
    /\ UNCHANGED <<args, host, port, request, idx, net, response, stdout, helper_vars>>

AfterAccept(command) == IF HasBody(command) THEN "body" ELSE "connect"

\* coap_get / coap_post / coap_put / coap_delete up to the accept loop
coap_begin ==
    /\ pc = "coap"
    /\ stderr' = Append(stderr, <<Banner(args.command), args.url>>)
    /\ \E r \in {coap_request_for_url(args.url)} :
          IF ~r.ok
          THEN Fail(r) /\ UNCHANGED <<host, port, request, idx>>
          ELSE /\ host' = r.val.host
               /\ port' = r.val.port
               /\ request' = set_method(r.val.request, args.command)
               /\ idx' = 1
               /\ pc' = IF args.accept = <<>> THEN AfterAccept(args.command) ELSE "accept"
               /\ UNCHANGED err
    /\ UNCHANGED <<args, data, net, response, stdout, exit_status, helper_vars>>

\* an accept token that does not translate is skipped
accept_loop_skipping ==
    /\ pc = "accept"
    /\ \E cf \in {parse_content_format(args.accept[idx])} :
          /\ request' = IF cf.ok THEN add_accept(request, cf.val) ELSE request
          /\ idx' = idx + 1
          /\ pc' = IF idx = Len(args.accept) THEN AfterAccept(args.command) ELSE "accept"
    /\ UNCHANGED <<args, data, host, port, net, response, stdout, stderr, err, exit_status,
                   helper_vars>>

\* one iteration of: for cf in accept { request.add_accept(parse_content_format(cf)?) }
accept_loop ==
    /\ pc = "accept"
    /\ \E cf \in {parse_content_format(args.accept[idx])} :
          IF ~cf.ok
          THEN Fail(cf) /\ UNCHANGED <<request, idx>>
          ELSE /\ request' = add_accept(request, cf.val)
               /\ idx' = idx + 1
               /\ pc' = IF idx = Len(args.accept) THEN AfterAccept(args.command) ELSE "accept"
               /\ UNCHANGED err
    /\ UNCHANGED <<args, data, host, port, net, response, stdout, stderr, exit_status,
                   helper_vars>>

\* coap_post / coap_put: the content format, if any, and then the payload
set_body ==
    /\ pc = "body"
    /\ \E cf \in {IF IsSome(args.content_format)
                  THEN parse_content_format(Unwrap(args.content_format))
                  ELSE Ok(None)} :
          IF ~cf.ok
          THEN Fail(cf) /\ UNCHANGED request
          ELSE /\ request' = set_data(IF IsSome(args.content_format)
                                      THEN set_content_format(request, cf.val)
                                      ELSE request,
                                      Unwrap(data))
               /\ pc' = "connect"
               /\ UNCHANGED err
    /\ UNCHANGED <<args, data, host, port, idx, net, response, stdout, stderr, exit_status,
                   helper_vars>>

TransportError(op) == Err("transport", op)

\* coap_send: CoAPClient::new((host, port.unwrap_or(5683)))?
client_new ==
    /\ pc = "connect"
    /\ \E ok \in BOOLEAN :
          /\ net' = Append(net, [op |-> "connect", ok |-> ok, host |-> host,
                                 port |-> IF IsSome(port) THEN Unwrap(port) ELSE DefaultPort])
          /\ IF ok THEN pc' = "set_timeout" /\ UNCHANGED err
                   ELSE Fail(TransportError("connect"))
    /\ UNCHANGED <<args, data, host, port, request, idx, response, stdout, stderr,
                   exit_status, helper_vars>>

\* coap_send: client.set_receive_timeout(Some(Duration::new(timeout, 0)))?
\* (the socket refuses a zero duration)
set_receive_timeout ==
    /\ pc = "set_timeout"
    /\ \E ok \in BOOLEAN :
          /\ args.timeout = 0 => ~ok
          /\ net' = Append(net, [op |-> "set_receive_timeout", ok |-> ok,
                                 secs |-> args.timeout])
          /\ IF ok THEN pc' = "send" /\ UNCHANGED err
                   ELSE Fail(TransportError("set_receive_timeout"))
    /\ UNCHANGED <<args, data, host, port, request, idx, response, stdout, stderr,
                   exit_status, helper_vars>>

\* coap_send: client.send2(&mut request)?
send2 ==
    /\ pc = "send"
    /\ \E ok \in BOOLEAN :
          /\ net' = Append(net, [op |-> "send", ok |-> ok, request |-> request])
          /\ IF ok THEN pc' = "receive" /\ UNCHANGED err
                   ELSE Fail(TransportError("send"))
    /\ UNCHANGED <<args, data, host, port, request, idx, response, stdout, stderr,
                   exit_status, helper_vars>>

\* a failed receive sends the request again
receive2_retrying ==
    /\ pc = "receive"
    /\ \/ /\ net' = Append(net, [op |-> "receive", ok |-> FALSE])
          /\ pc' = "send"
          /\ UNCHANGED <<response, err>>
       \/ \E r \in Responses :
             /\ net' = Append(net, [op |-> "receive", ok |-> TRUE])
             /\ response' = Some(r)
             /\ pc' = "print"
             /\ UNCHANGED err
    /\ UNCHANGED <<args, data, host, port, request, idx, stdout, stderr, exit_status,
                   helper_vars>>

\* coap_send: client.receive2(&mut request), a response or an error
\* (a receive timeout among them)
receive2 ==
    /\ pc = "receive"
    /\ \/ /\ net' = Append(net, [op |-> "receive", ok |-> FALSE])
          /\ Fail(TransportError("receive"))
          /\ UNCHANGED response
       \/ \E r \in Responses :
             /\ net' = Append(net, [op |-> "receive", ok |-> TRUE])
             /\ response' = Some(r)
             /\ pc' = "print"
             /\ UNCHANGED err
    /\ UNCHANGED <<args, data, host, port, request, idx, stdout, stderr, exit_status,
                   helper_vars>>

\* the response code to the diagnostic stream, the payload to standard output
print_response ==
    /\ pc = "print"
    /\ stderr' = Append(stderr, <<"code", Unwrap(response).code>>)
    /\ stdout' = Append(stdout, from_utf8_lossy(Unwrap(response).payload))
    /\ pc' = "ok"
    /\ UNCHANGED <<args, data, host, port, request, idx, net, response, err, exit_status,
                   helper_vars>>

\* the error is reported with println! instead of eprintln!
main_return_println ==
    /\ pc \in {"ok", "failed"}
    /\ stdout' = IF pc = "failed" THEN Append(stdout, <<"ERROR", Unwrap(err)>>) ELSE stdout
    /\ exit_status' = Some(0)
    /\ pc' = "exited"
    /\ UNCHANGED <<args, data, host, port, request, idx, net, response, stderr, err,
                   helper_vars>>

\* main, once execute_command has returned: report an error, then return
main_return ==
    /\ pc \in {"ok", "failed"}
    /\ stderr' = IF pc = "failed" THEN Append(stderr, <<"ERROR", Unwrap(err)>>) ELSE stderr
    /\ exit_status' = Some(0)
    /\ pc' = "exited"
    /\ UNCHANGED <<args, data, host, port, request, idx, net, response, stdout, err,
                   helper_vars>>

Next ==
    \/ execute_command
    \/ coap_begin
    \/ accept_loop
    \/ set_body
    \/ client_new
    \/ set_receive_timeout
    \/ send2
    \/ receive2
    \/ print_response
    \/ main_return

Spec == Init /\ [][Next]_vars

----------------------------------------------------------------------------
(* Properties *)

NetOps(op) == {i \in 1..Len(net) : net[i].op = op}

NetFailed == net # <<>> /\ ~Last(net).ok

ErrorLines == {i \in 1..Len(stderr) : stderr[i][1] = "ERROR"}

Failed == err # None

\* C1: an invocation connects at most once and sends at most one request;
\* a failed connect, set-timeout, send or receive is the last network
\* operation of the invocation and ends it with one transport error, which
\* is reported exactly once.
C1_AtMostOneRequest ==
    /\ Cardinality(NetOps("connect")) <= 1
    /\ Cardinality(NetOps("send")) <= 1
    /\ Cardinality(NetOps("receive")) <= 1
    /\ \A i \in 1..(Len(net) - 1) : net[i].ok
    /\ NetFailed =>
          /\ pc \in {"failed", "exited"}
          /\ err = Some(TransportError(Last(net).op))
          /\ pc = "exited" => Cardinality(ErrorLines) = 1

C1_Witness ==
    /\ pc = "exited"
    /\ NetFailed
    /\ Last(net).op = "receive"

\* C2: standard output is either empty or holds exactly the decoded payload
\* of a response that was received; an invocation that ended in an error or
\* a panic printed nothing to standard output, and one that received a
\* response has printed it when it exits.
C2_NoPartialSuccess ==
    /\ stdout # <<>> =>
          /\ ~Failed
          /\ response # None
          /\ net # <<>> /\ Last(net).op = "receive" /\ Last(net).ok
          /\ stdout = <<from_utf8_lossy(Unwrap(response).payload)>>
    /\ (Failed \/ exit_status = Some(101)) => stdout = <<>>
    /\ (pc = "exited" /\ response # None) => stdout # <<>>

C2_Witness ==
    /\ pc = "exited"
    /\ stdout = << <<111, 65533>> >>

\* C3: when an invocation has failed, an ERROR line with the error is on the
\* diagnostic stream and the exit status is not zero.
C3_ErrorExitsNonZero ==
    (pc = "exited" /\ Failed) =>
        /\ \E i \in ErrorLines : stderr[i][2] = Unwrap(err)
        /\ exit_status # Some(0)

MissingPayloadSource == Err("must specify either data string or file path", <<>>)

\* C4: Post or Put with neither data nor file fails with the missing payload
\* source error and without any network operation, whatever the URL, the
\* accept list and the content format are.
C4_MissingPayloadSource ==
    (HasBody(args.command) /\ args.data = None /\ args.file = None) =>
        /\ net = <<>>
        /\ pc \in {"main", "failed", "exited"}
        /\ pc # "main" => err = Some(MissingPayloadSource)
        /\ pc = "exited" => stderr = << <<"ERROR", MissingPayloadSource>> >>

C4_Witness ==
    /\ pc = "exited"
    /\ args.command = "Put" /\ args.data = None /\ args.file = None
    /\ args.url = Url_localhost
    /\ args.accept = <<S_application_json>>
    /\ err = Some(MissingPayloadSource)

\* C5: Post or Put with a file path that does not name a regular file fails
\* without any network operation, also when data is given as well.
C5_BadFileFailsBeforeNetwork ==
    (HasBody(args.command) /\ IsSome(args.file) /\ ~Unwrap(args.file).is_file) =>
        /\ net = <<>>
        /\ pc = "exited" => (Failed \/ exit_status = Some(101))

DecodeU16(b) ==
    IF b = <<>> THEN 0
    ELSE IF Len(b) = 1 THEN b[1]
    ELSE 256 * b[1] + b[2]

TokenCode(t) ==
    CASE t = S_application_json -> 50
      [] t = S_application_cbor -> 60
      [] t = S_10000 -> 10000
      [] OTHER -> -1

AcceptLoopDone ==
    pc \in {"body", "connect", "set_timeout", "send", "receive", "print", "ok"} \/ net # <<>>

AcceptOptionsOf(req, n) ==
    /\ Len(req.options["Accept"]) = n
    /\ \A i \in 1..n : DecodeU16(req.options["Accept"][i]) = TokenCode(args.accept[i])

\* C6: once the accept loop is over, the request holds one Accept option per
\* entry of the accept list, in the order of the list, each with the code of
\* its entry, repeated entries included; the request that is sent holds the
\* same options.
C6_OneAcceptPerEntry ==
    /\ AcceptLoopDone => AcceptOptionsOf(request, Len(args.accept))
    /\ \A i \in NetOps("send") : AcceptOptionsOf(net[i].request, Len(args.accept))

C6_Witness ==
    /\ pc = "exited"
    /\ args.accept = <<S_application_json, S_application_cbor>>
    /\ request.options["Accept"] = << <<50>>, <<60>> >>
    /\ NetOps("send") # {}

MimeTable ==
    {<<S_text_plain, 0>>, <<S_application_json, 50>>, <<S_application_xml, 41>>,
     <<S_application_octet_stream, 42>>, <<S_application_cbor, 60>>}

C8_ConnectPort ==
    /\ \A i \in NetOps("connect") :
          net[i].port = IF IsSome(args.url.port) THEN Unwrap(args.url.port) ELSE 5683
    /\ (pc \notin {"main", "coap", "failed", "exited"} /\ args.url.port = None) => port = None

Bracketed(h) == Len(h) >= 2 /\ Head(h) = "[" /\ Last(h) = "]"

Helper_OneAcceptPerEntry ==
    (call.fn = "build_coap_request_for_url" /\ result # None /\ Unwrap(result).ok) =>
        \E l \in {IF IsSome(call.arg.accept) THEN Unwrap(call.arg.accept) ELSE <<>>} :
            /\ Len(Unwrap(result).val.options["Accept"]) = Len(l)
            /\ \A i \in 1..Len(l) :
                  DecodeU16(Unwrap(result).val.options["Accept"][i]) = l[i]
            /\ Len(Unwrap(result).val.options["ContentFormat"]) =
                  Len(call.arg.content_format)

BadUrl(u) == u.scheme = "" \/ ~u.authority \/ u.host = <<>>

BadToken(t) == t \in {S_text_unknown, S_999999}

\* C10: a network operation happens only when the URL resolved, the method
\* is set, every accept token and the content format token have become
\* options and, for Post and Put, the payload is set; the request sent is
\* that request.  With a bad URL or a bad token there is no network
\* operation.
C10_AssembledBeforeSend ==
    /\ net # <<>> =>
          /\ ~BadUrl(args.url)
          /\ \A i \in 1..Len(args.accept) : ~BadToken(args.accept[i])
          /\ IsSome(args.content_format) => ~BadToken(Unwrap(args.content_format))
          /\ request.method = args.command
          /\ request.options["UriHost"] = <<host>>
          /\ Len(request.options["Accept"]) = Len(args.accept)
          /\ Len(request.options["ContentFormat"]) =
                (IF IsSome(args.content_format) THEN 1 ELSE 0)
          /\ HasBody(args.command) => (IsSome(data) /\ request.payload = Unwrap(data))
          /\ \A i \in NetOps("send") : net[i].request = request
    /\ (\/ BadUrl(args.url)
        \/ \E i \in 1..Len(args.accept) : BadToken(args.accept[i])
        \/ IsSome(args.content_format) /\ BadToken(Unwrap(args.content_format)))
         => net = <<>>

C10_Witness ==
    /\ NetOps("send") # {}
    /\ args.command = "Post"
    /\ Len(args.accept) = 2
    /\ args.content_format = Some(S_text_plain)
    /\ request.options["ContentFormat"] = << <<>> >>

====
